---- MODULE Spec2Model ----
(***************************************************************************)
(* Model of the hype-score service: main.py (request handler get_hype,     *)
(* the in-memory cache, the aggregation analyze_hype over Wikipedia,       *)
(* Reddit and NewsAPI).                                                    *)
(*                                                                         *)
(* Strings that the code transforms (the query, the cache key) are         *)
(* sequences of one-character strings, so that str.lower() is computed.    *)
(* Scores are kept in hundredths of a point, which represents              *)
(* view_count / 100 and article_count / 10 exactly: 43.0 is 4300.          *)
(*                                                                         *)
(* get_hype is one action: the handler is a coroutine without a            *)
(* suspension point (analyze_hype awaits nothing, its calls to the         *)
(* sources are blocking), so the event loop runs it from the first line    *)
(* to its return or to the exception that leaves it.                       *)
(***************************************************************************)
EXTENDS Integers, Sequences, FiniteSets, TLC

VARIABLES
    cache,        \* main.py: cache = {}   (dict: search_term -> entry)
    now,          \* the wall clock read by time.time()
    reddit,       \* main.py: reddit (TRUE: a praw client, FALSE: None)
    NEWSAPI_KEY,  \* main.py: NEWSAPI_KEY (TRUE: set, FALSE: absent)
    request,      \* the input of the last handler run
    response,     \* what the last handler run gave back
    calls,        \* the calls to external sources made by the last run
    pending,      \* requests accepted by the server, waiting for the event loop
    running,      \* the run of get_hype that occupies the event loop
    trends        \* trends_analyzer.py: the arguments and results of its functions

vars == <<cache, now, reddit, NEWSAPI_KEY, request, response, calls,
          pending, running, trends>>

-----------------------------------------------------------------------------
(* Bounds and input sets *)

MaxTime == 1350
MaxLinks == 100000
MaxArticles == 100000

ClockSteps == {450, 899}

\* Query strings the clients send.
Py      == <<"P", "y">>
py      == <<"p", "y">>
pySpace == <<"p", "y", " ">>

Queries == {Py, py, pySpace}
AggQueries == {py}

-----------------------------------------------------------------------------
(* Program constants *)

CACHE_DURATION_SECONDS_Sum == 60 + 15

CACHE_DURATION_SECONDS == 60 * 15

\* main.py 121: reddit.subreddit("all").search(search_term, limit=10)
RedditLimit == 10

-----------------------------------------------------------------------------
(* str.lower(), str.strip(), min() *)

LowerChar(c) ==
    CASE c = "P" -> "p"
      [] c = "Y" -> "y"
      [] OTHER   -> c

lower(s) == [i \in 1..Len(s) |-> LowerChar(s[i])]

RECURSIVE lstrip(_)
lstrip(s) == IF s # <<>> /\ Head(s) = " " THEN lstrip(Tail(s)) ELSE s

RECURSIVE rstrip(_)
rstrip(s) ==
    IF s # <<>> /\ s[Len(s)] = " " THEN rstrip(SubSeq(s, 1, Len(s) - 1)) ELSE s

strip(s) == rstrip(lstrip(s))

Min(a, b) == IF a <= b THEN a ELSE b

-----------------------------------------------------------------------------
(* What the external sources answer: a value, or the exception the client  *)
(* library raises.                                                         *)

Value(n)  == [ok |-> TRUE,  n |-> n, exc |-> "-"]
Raises(e) == [ok |-> FALSE, n |-> 0, exc |-> e]

\* wikipedia: PageError (not found), DisambiguationError (ambiguous);
\* HTTPTimeoutError (timeout), requests ConnectionError (network),
\* WikipediaException (an API error such as a rate limit) and KeyError (a
\* malformed response) of the underlying HTTP call.
WikiExceptions ==
    {"PageError", "DisambiguationError", "HTTPTimeoutError",
     "ConnectionError", "WikipediaException", "KeyError"}

\* praw / prawcore errors, all subclasses of Exception.
RedditExceptions ==
    {"NotFound", "TooManyRequests", "RequestException", "ServerError",
     "BadJSON"}

\* requests: HTTPError from raise_for_status (404, 429), ConnectionError,
\* Timeout are RequestException; TypeError is what lines 137-138 raise on
\* a JSON body of the wrong shape.
NewsExceptions ==
    {"HTTPError404", "HTTPError429", "ConnectionError", "Timeout",
     "TypeError"}

RequestException == {"HTTPError404", "HTTPError429", "ConnectionError", "Timeout"}

LinkCounts    == {0, 50, 4500, MaxLinks}
PostCounts    == {0, 3, RedditLimit}
ArticleCounts == {0, 5, 230, MaxArticles}

WikiOutcomes   == {Value(n) : n \in LinkCounts}    \cup {Raises(e) : e \in WikiExceptions}
RedditOutcomes == {Value(n) : n \in PostCounts}    \cup {Raises(e) : e \in RedditExceptions}
NewsOutcomes   == {Value(n) : n \in ArticleCounts} \cup {Raises(e) : e \in NewsExceptions}

World(w, r, n) == [wiki |-> w, reddit |-> r, news |-> n]

AllWorlds ==
    {World(w, r, n) : w \in WikiOutcomes, r \in RedditOutcomes, n \in NewsOutcomes}

\* The worlds of the cache specification: every source answers, every
\* source fails with an error the code handles, Wikipedia is unreachable.
WorldUp      == World(Value(4500), Value(3), Value(230))
WorldDown    == World(Raises("PageError"), Raises("TooManyRequests"), Raises("Timeout"))
WorldOffline == World(Raises("ConnectionError"), Value(3), Value(230))

CacheWorlds == {WorldUp, WorldDown, WorldOffline}

-----------------------------------------------------------------------------
(* analyze_hype *)

Snippet(text, n, detail) == [text |-> text, n |-> n, detail |-> detail]

Call(source, term) == [source |-> source, term |-> term]

\* The locals of analyze_hype after lines 102-104.
Start ==
    [raised |-> "-", score |-> 0, title |-> "No Data", snippets |-> <<>>, calls |-> <<>>]

WikiScore_Unclamped(view_count) == view_count

\* main.py 110: min(view_count / 100, 20), in hundredths
WikiScore(view_count) == Min(view_count, 20 * 100)

\* main.py 123: min(post_count * 2, 30), in hundredths
RedditScore(post_count) == Min(post_count * 2 * 100, 30 * 100)

\* main.py 138: min(article_count / 10, 50), in hundredths
NewsScore(article_count) == Min(article_count * 10, 50 * 100)

RedditTitle_Always(title, post_count) == "Reddit Data"

\* main.py 125-126
RedditTitle(title, post_count) == IF post_count > 0 THEN "Reddit Data" ELSE title

\* main.py 140-141
NewsTitle(title, article_count) == IF article_count > 0 THEN "News Data" ELSE title

\* main.py 107-116
Wikipedia(a, search_term, w) ==
    LET called == [a EXCEPT !.calls = Append(@, Call("wikipedia", search_term))]
    IN  IF w.ok
        THEN [called EXCEPT
                !.score = @ + WikiScore(w.n),
                !.snippets = Append(@, Snippet("Wikipedia links: ", w.n, "")),
                !.title = "Wikipedia Data"]
        ELSE IF w.exc = "PageError"
        THEN [called EXCEPT
                !.snippets = Append(@, Snippet("Wikipedia page not found.", 0, ""))]
        ELSE IF w.exc = "DisambiguationError"
        THEN [called EXCEPT
                !.snippets = Append(@, Snippet("Wikipedia disambiguation: ", 0, "options"))]
        ELSE [called EXCEPT !.raised = w.exc]

Reddit_Prepend(a, search_term, r) ==
    IF a.raised # "-" \/ ~reddit THEN a
    ELSE
    LET called == [a EXCEPT !.calls = Append(@, Call("reddit", search_term))]
    IN  IF r.ok
        THEN [called EXCEPT
                !.score = @ + RedditScore(r.n),
                !.snippets = <<Snippet("Reddit posts: ", r.n, "")>> \o @,
                !.title = RedditTitle(@, r.n)]
        ELSE [called EXCEPT
                !.snippets = <<Snippet("Reddit error: ", 0, r.exc)>> \o @]

\* main.py 119-128
Reddit(a, search_term, r) ==
    IF a.raised # "-" \/ ~reddit THEN a
    ELSE
    LET called == [a EXCEPT !.calls = Append(@, Call("reddit", search_term))]
    IN  IF r.ok
        THEN [called EXCEPT
                !.score = @ + RedditScore(r.n),
                !.snippets = Append(@, Snippet("Reddit posts: ", r.n, "")),
                !.title = RedditTitle(@, r.n)]
        ELSE [called EXCEPT
                !.snippets = Append(@, Snippet("Reddit error: ", 0, r.exc))]

\* main.py 131-143
NewsAPI(a, search_term, n) ==
    IF a.raised # "-" \/ ~NEWSAPI_KEY THEN a
    ELSE
    LET called == [a EXCEPT !.calls = Append(@, Call("newsapi", search_term))]
    IN  IF n.ok
        THEN [called EXCEPT
                !.score = @ + NewsScore(n.n),
                !.snippets = Append(@, Snippet("News articles: ", n.n, "")),
                !.title = NewsTitle(@, n.n)]
        ELSE IF n.exc \in RequestException
        THEN [called EXCEPT
                !.snippets = Append(@, Snippet("NewsAPI error: ", 0, n.exc))]
        ELSE [called EXCEPT !.raised = n.exc]

\* main.py 101-145: the tuple returned, or the exception that leaves it.
analyze_hype(search_term, world) ==
    NewsAPI(Reddit(Wikipedia(Start, search_term, world.wiki),
                   search_term, world.reddit),
            search_term, world.news)

-----------------------------------------------------------------------------
(* get_hype *)

NoRequest == [op |-> "none", query |-> <<>>, world |-> WorldUp]

NoResponse ==
    [kind |-> "none", query |-> <<>>, score |-> 0, title |-> "", snippets |-> <<>>]

\* main.py 45-49, 77, 99: HypeResult(**data)
HypeResult(data) ==
    [kind |-> "HypeResult", query |-> data.query, score |-> data.score,
     title |-> data.title, snippets |-> data.snippets]

\* main.py 145: the tuple analyze_hype returns
Tuple(a) ==
    [kind |-> "tuple", query |-> <<>>, score |-> a.score, title |-> a.title,
     snippets |-> a.snippets]

\* An exception that leaves the handler.
Exception(e) ==
    [kind |-> "exception", query |-> <<>>, score |-> 0, title |-> e, snippets |-> <<>>]

\* main.py 80: del cache[search_term]
Remove(c, k) == [x \in DOMAIN c \ {k} |-> c[x]]

Store_SkipEmpty(c, k, e) ==
    IF e.data.score = 0 THEN c
    ELSE [x \in DOMAIN c \cup {k} |-> IF x = k THEN e ELSE c[x]]

\* main.py 95: cache[search_term] = {...}
Store(c, k, e) == [x \in DOMAIN c \cup {k} |-> IF x = k THEN e ELSE c[x]]

result_data_Lowered(query, search_term, a) ==
    [query |-> search_term, score |-> a.score, title |-> a.title,
     snippets |-> a.snippets]

\* main.py 87-92
result_data(query, search_term, a) ==
    [query |-> query, score |-> a.score, title |-> a.title,
     snippets |-> a.snippets]

\* main.py 73-75: the request is answered from the cache.
Fresh(search_term, current_time) ==
    /\ search_term \in DOMAIN cache
    /\ current_time - cache[search_term].timestamp < CACHE_DURATION_SECONDS

\* main.py 68-99
get_hype(query, world) ==
    LET search_term  == lower(query)
        current_time == now
    IN  /\ request' = [op |-> "get_hype", query |-> query, world |-> world]
        /\ IF Fresh(search_term, current_time)
           THEN /\ response' = HypeResult(cache[search_term].data)
                /\ calls' = <<>>
                /\ cache' = cache
           ELSE LET expired == IF search_term \in DOMAIN cache
                               THEN Remove(cache, search_term)
                               ELSE cache
                    a == analyze_hype(search_term, world)
                    data == result_data(query, search_term, a)
                IN  /\ calls' = a.calls
                    /\ IF a.raised # "-"
                       THEN /\ response' = Exception(a.raised)
                            /\ cache' = expired
                       ELSE /\ response' = HypeResult(data)
                            /\ cache' = Store(expired, search_term,
                                   [timestamp |-> current_time, data |-> data])
        /\ UNCHANGED <<now, reddit, NEWSAPI_KEY, pending, running, trends>>

\* A direct call of analyze_hype with the arguments drawn by InitAgg.
AnalyzeHype ==
    LET a == analyze_hype(request.query, request.world)
    IN  /\ request.op = "call"
        /\ request' = [request EXCEPT !.op = "analyze_hype"]
        /\ calls' = a.calls
        /\ response' = IF a.raised # "-" THEN Exception(a.raised) ELSE Tuple(a)
        /\ UNCHANGED <<cache, now, reddit, NEWSAPI_KEY, pending, running, trends>>

\* The clock advances between requests.
Tick(d) ==
    /\ now + d <= MaxTime
    /\ now' = now + d
    /\ UNCHANGED <<cache, reddit, NEWSAPI_KEY, request, response, calls,
                   pending, running, trends>>

-----------------------------------------------------------------------------
(* Specifications *)

\* No run of get_hype is in progress.
Idle ==
    [phase |-> "idle", query |-> <<>>, current_time |-> 0, ended |-> 0,
     overlaps |-> FALSE]

\* No function of trends_analyzer.py has been called.
NoTrends == [op |-> "none"]

\* main.py 17-64: the state after import.
Init ==
    /\ cache = <<>>
    /\ now = 0
    /\ reddit \in BOOLEAN
    /\ NEWSAPI_KEY \in BOOLEAN
    /\ request = NoRequest
    /\ response = NoResponse
    /\ calls = <<>>
    /\ pending = <<>>
    /\ running = Idle
    /\ trends = NoTrends

Request == \E q \in Queries, w \in CacheWorlds : get_hype(q, w)

Clock == \E d \in ClockSteps : Tick(d)

Next == Request \/ Clock

Spec == Init /\ [][Next]_vars

\* The aggregation on its own, over every combination of source answers.
InitAgg ==
    /\ cache = <<>>
    /\ now = 0
    /\ reddit \in BOOLEAN
    /\ NEWSAPI_KEY \in BOOLEAN
    /\ request \in [op : {"call"}, query : AggQueries, world : AllWorlds]
    /\ response = NoResponse
    /\ calls = <<>>
    /\ pending = <<>>
    /\ running = Idle
    /\ trends = NoTrends

NextAgg == AnalyzeHype

SpecAgg == InitAgg /\ [][NextAgg]_vars

-----------------------------------------------------------------------------
(* The event loop: get_hype in the two parts that the clock and the       *)
(* arrival of other requests can separate, the lines before the calls to  *)
(* the sources and the lines from their answers on.                       *)

MaxPending == 2

LoopQueries == {py, pySpace}

\* A source that never answers: wikipedia.page and requests.get are called
\* without a timeout (main.py 108, 134).
Silent == [ok |-> FALSE, n |-> 0, exc |-> "never"]

WorldSilent == World(Silent, Value(3), Value(230))

LoopWorlds == {WorldUp, WorldOffline, WorldSilent}

\* A request for the same key is being aggregated.
Overlaps(query) ==
    /\ running.phase = "aggregating"
    /\ lower(running.query) = lower(query)

\* The server accepts a request; its handler waits for the event loop.
Receive(query) ==
    /\ Len(pending) < MaxPending
    /\ pending' = Append(pending, [query |-> query, overlaps |-> Overlaps(query)])
    /\ UNCHANGED <<cache, now, reddit, NEWSAPI_KEY, request, response, calls,
                   running, trends>>

LoopFree_Interleaved == TRUE

\* main.py 68-99, 101-145: get_hype and analyze_hype contain no await that
\* suspends, so a handler starts only when no other is inside get_hype.
LoopFree == running.phase = "idle"

\* main.py 68-82: the handler of the oldest waiting request runs up to the
\* return of a cached result or to the first call to a source.
Begin ==
    /\ pending # <<>>
    /\ LoopFree
    /\ LET query        == Head(pending).query
           search_term  == lower(query)
           current_time == now
       IN  /\ pending' = Tail(pending)
           /\ request' = [op |-> "get_hype", query |-> query, world |-> request.world]
           /\ calls' = <<>>
           /\ IF Fresh(search_term, current_time)
              THEN /\ response' = HypeResult(cache[search_term].data)
                   /\ cache' = cache
                   /\ running' = [phase |-> "idle", query |-> query,
                                  current_time |-> current_time, ended |-> now,
                                  overlaps |-> Head(pending).overlaps]
              ELSE /\ response' = NoResponse
                   /\ cache' = IF search_term \in DOMAIN cache
                               THEN Remove(cache, search_term)
                               ELSE cache
                   /\ running' = [phase |-> "aggregating", query |-> query,
                                  current_time |-> current_time, ended |-> 0,
                                  overlaps |-> Head(pending).overlaps]
    /\ UNCHANGED <<now, reddit, NEWSAPI_KEY, trends>>

timestamp_AtStore(run) == now

\* main.py 70, 95: 'timestamp': current_time
timestamp(run) == run.current_time

\* main.py 85-99: the sources have answered; the result is stored and
\* returned, or the exception leaves the handler.
Finish(world) ==
    LET search_term == lower(running.query)
        a    == analyze_hype(search_term, world)
        data == result_data(running.query, search_term, a)
    IN  /\ running.phase = "aggregating"
        /\ a.raised # "never"
        /\ request' = [request EXCEPT !.world = world]
        /\ calls' = a.calls
        /\ IF a.raised # "-"
           THEN /\ response' = Exception(a.raised)
                /\ cache' = cache
           ELSE /\ response' = HypeResult(data)
                /\ cache' = Store(cache, search_term,
                              [timestamp |-> timestamp(running), data |-> data])
        /\ running' = [running EXCEPT !.phase = "idle", !.ended = now]
        /\ UNCHANGED <<now, reddit, NEWSAPI_KEY, pending, trends>>

\* main.py 108, 134: a call to a source that never answers does not return.
Block(world) ==
    LET a == analyze_hype(lower(running.query), world)
    IN  /\ running.phase = "aggregating"
        /\ a.raised = "never"
        /\ request' = [request EXCEPT !.world = world]
        /\ calls' = a.calls
        /\ running' = [running EXCEPT !.phase = "blocked"]
        /\ UNCHANGED <<cache, now, reddit, NEWSAPI_KEY, response, pending, trends>>

Arrival == \E q \in LoopQueries : Receive(q)

Answer == \E w \in LoopWorlds : Finish(w)

NoAnswer == \E w \in LoopWorlds : Block(w)

NextLoop == Arrival \/ Begin \/ Answer \/ NoAnswer \/ Clock

SpecLoop == Init /\ [][NextLoop]_vars

-----------------------------------------------------------------------------
(* POST /api/hype: the body is validated against HypeQuery before the     *)
(* handler is called.                                                     *)

\* A request body: with or without the field "query".
Body(has_query, query) == [has_query |-> has_query, query |-> query]

Bodies == {Body(FALSE, <<>>), Body(TRUE, <<>>), Body(TRUE, py), Body(TRUE, Py)}

\* The 422 answer of the framework.
ValidationError ==
    [kind |-> "ValidationError", query |-> <<>>, score |-> 0, title |-> "",
     snippets |-> <<>>]

\* main.py 42-43: query: str  (required, any string)
HypeQuery(body) == body.has_query

\* main.py 42-43, 67-68
post_hype(body, world) ==
    IF HypeQuery(body)
    THEN get_hype(body.query, world)
    ELSE /\ request' = [op |-> "rejected", query |-> <<>>, world |-> world]
         /\ response' = ValidationError
         /\ calls' = <<>>
         /\ UNCHANGED <<cache, now, reddit, NEWSAPI_KEY, pending, running, trends>>

Post == \E b \in Bodies, w \in CacheWorlds : post_hype(b, w)

NextPost == Post \/ Clock

SpecPost == Init /\ [][NextPost]_vars

-----------------------------------------------------------------------------
(* trends_analyzer.py: the Google Trends path.                             *)
(* Index values are whole numbers 0..100; the float score 43.0 is 43.      *)

MaxSeries == 2
MaxTopRows == 3
MaxRisingRows == 4

\* Values of the last point of the series: both sides of every threshold.
LastValues == {0, 1, 15, 16, 40, 41, 65, 66, 85, 86, 100}

\* Values of the earlier points.
PastValues == {0, 100}

RECURSIVE SeriesOfLen(_)
SeriesOfLen(n) ==
    IF n = 0 THEN {<<>>}
    ELSE IF n = 1 THEN {<<v>> : v \in LastValues}
    ELSE UNION {{<<p>> \o s : p \in PastValues} : s \in SeriesOfLen(n - 1)}

Series == UNION {SeriesOfLen(n) : n \in 0..MaxSeries}

\* DataFrame.sum() of a column
RECURSIVE sum(_)
sum(s) == IF s = <<>> THEN 0 ELSE Head(s) + sum(Tail(s))

\* DataFrame.iloc[-1] of a column
iloc_last(s) == s[Len(s)]

\* DataFrame.head(n)
head(rows, n) == SubSeq(rows, 1, Min(n, Len(rows)))

\* A frame of interest over time: its columns and the keyword's values.
Frame(columns, values) == [columns |-> columns, values |-> values]

\* trends_analyzer.py 29: pd.DataFrame()
EmptyFrame == Frame(<<>>, <<>>)

\* DataFrame.empty: an axis of length 0
empty(frame) == frame.columns = <<>> \/ frame.values = <<>>

InterestFrames ==
    {EmptyFrame}
    \cup {Frame(c, s) : c \in {<<"keyword">>, <<"keyword", "isPartial">>},
                        s \in Series}

\* A frame of related queries: rows in the order of the source.
Rows(n, first) ==
    [i \in 1..n |-> [query |-> first + i, value |-> 50 * i]]

\* The entry 'top' or 'rising' of a keyword: absent, None or a frame.
Absent == [state |-> "absent", rows |-> <<>>]
None   == [state |-> "none",   rows |-> <<>>]
Related(rows) == [state |-> "frame", rows |-> rows]

TopEntries ==
    {Absent, None} \cup {Related(Rows(n, 100)) : n \in 0..MaxTopRows}

RisingEntries ==
    {Absent, None} \cup {Related(Rows(n, 200)) : n \in 0..MaxRisingRows}

\* trends_analyzer.py 29, 38: {}
EmptyDict == [top |-> Absent, rising |-> Absent]

\* What pytrends answers to each call: "-" when the call returns, or the
\* name of the exception it raises.
TrendReqAnswers == {"-", "ConnectionError"}
PayloadAnswers  == {"-", "ResponseError"}
InterestAnswers == {"-", "TooManyRequestsError"}
RelatedAnswers  == {"-", "KeyError"}

Upstreams ==
    [TrendReq         : TrendReqAnswers,
     build_payload    : PayloadAnswers,
     interest_exc     : InterestAnswers,
     interest_df      : InterestFrames,
     related_exc      : RelatedAnswers,
     has_keyword      : BOOLEAN,
     top              : TopEntries,
     rising           : RisingEntries]

\* The dict returned by get_google_trends_data, or None.
TrendsData(interest, related_queries) ==
    [none |-> FALSE, interest |-> interest, related_queries |-> related_queries]

NoneData == [none |-> TRUE, interest |-> EmptyFrame, related_queries |-> EmptyDict]

Fetched(raised, data, fetch_calls) ==
    [raised |-> raised, data |-> data, calls |-> fetch_calls]

\* trends_analyzer.py 38: related_queries_dict.get(keyword, {})
related_get(up) ==
    IF up.has_keyword THEN [top |-> up.top, rising |-> up.rising] ELSE EmptyDict

NoSufficientData_ColumnOnly(interest_df) ==
    ~(\E i \in 1..Len(interest_df.columns) : interest_df.columns[i] = "keyword")

\* trends_analyzer.py 26
NoSufficientData(interest_df) ==
    ~(\E i \in 1..Len(interest_df.columns) : interest_df.columns[i] = "keyword")
    \/ sum(interest_df.values) = 0

\* trends_analyzer.py 6-46
get_google_trends_data(up) ==
    IF up.TrendReq # "-"
    THEN Fetched(up.TrendReq, NoneData, <<"TrendReq">>)
    ELSE IF up.build_payload # "-"
    THEN Fetched("-", NoneData, <<"TrendReq", "build_payload">>)
    ELSE IF up.interest_exc # "-"
    THEN Fetched("-", NoneData,
                 <<"TrendReq", "build_payload", "interest_over_time">>)
    ELSE IF NoSufficientData(up.interest_df)
    THEN Fetched("-", TrendsData(EmptyFrame, EmptyDict),
                 <<"TrendReq", "build_payload", "interest_over_time">>)
    ELSE IF up.related_exc # "-"
    THEN Fetched("-", NoneData,
                 <<"TrendReq", "build_payload", "interest_over_time",
                   "related_queries">>)
    ELSE Fetched("-", TrendsData(up.interest_df, related_get(up)),
                 <<"TrendReq", "build_payload", "interest_over_time",
                   "related_queries">>)

TrendsResult(score, title, trend_snippets) ==
    [score |-> score, title |-> title, snippets |-> trend_snippets]

NoDataSnippet == [text |-> "Could not retrieve sufficient trend data.",
                  query |-> 0, value |-> 0]
NoRelatedSnippet == [text |-> "No specific related queries found.",
                     query |-> 0, value |-> 0]
TopSnippet(row) == [text |-> "Top related: ", query |-> row.query, value |-> 0]
RisingSnippet(row) ==
    [text |-> "Rising related: ", query |-> row.query, value |-> row.value]

\* trends_analyzer.py 68: the first column that is not 'isPartial'
keyword_column(interest_df) ==
    LET cols == SelectSeq(interest_df.columns, LAMBDA c : c # "isPartial")
    IN  cols[1]

TrendsTitle_Inclusive(score, total) ==
    IF score = 0 /\ total > 0 THEN "Interest Fading?"
    ELSE IF score >= 85 THEN "Peak Interest!"
    ELSE IF score >= 65 THEN "High Interest"
    ELSE IF score >= 40 THEN "Moderate Interest"
    ELSE IF score >= 15 THEN "Low Interest"
    ELSE "Minimal Interest"

\* interest_df[name]: the keyword's values; isPartial is False in every row
column(interest_df, name) ==
    IF name = "keyword" THEN interest_df.values
    ELSE [i \in 1..Len(interest_df.values) |-> 0]

\* trends_analyzer.py 73-80
TrendsTitle(score, total) ==
    IF score = 0 /\ total > 0 THEN "Interest Fading?"
    ELSE IF score > 85 THEN "Peak Interest!"
    ELSE IF score > 65 THEN "High Interest"
    ELSE IF score > 40 THEN "Moderate Interest"
    ELSE IF score > 15 THEN "Low Interest"
    ELSE "Minimal Interest"

\* trends_analyzer.py 86, 88: the key is present and its value is not None
Listed(entry) == IF entry.state = "frame" THEN entry.rows ELSE <<>>

TrendsSnippets_RisingFirst(related_queries) ==
    LET top    == Listed(related_queries.top)
        rising == Listed(related_queries.rising)
        found  == [i \in 1..Len(head(rising, 3)) |-> RisingSnippet(rising[i])]
                  \o [i \in 1..Len(head(top, 2)) |-> TopSnippet(top[i])]
    IN  IF found = <<>> THEN <<NoRelatedSnippet>> ELSE found

\* trends_analyzer.py 84-92
TrendsSnippets(related_queries) ==
    LET top    == Listed(related_queries.top)
        rising == Listed(related_queries.rising)
        found  == [i \in 1..Len(head(top, 2)) |-> TopSnippet(top[i])]
                  \o [i \in 1..Len(head(rising, 3)) |-> RisingSnippet(rising[i])]
    IN  IF found = <<>> THEN <<NoRelatedSnippet>> ELSE found

\* trends_analyzer.py 49-95
calculate_hype_from_trends(trends_data) ==
    IF trends_data.none \/ empty(trends_data.interest)
    THEN TrendsResult(0, "No Data", <<NoDataSnippet>>)
    ELSE LET values == column(trends_data.interest,
                               keyword_column(trends_data.interest))
             score  == iloc_last(values)
         IN  TrendsResult(score, TrendsTitle(score, sum(values)),
                          TrendsSnippets(trends_data.related_queries))

NoFetch == Fetched("-", NoneData, <<>>)
NoTrendsResult == TrendsResult(0, "", <<>>)

\* The trend path before the first call, for each answer of the upstream.
InitTrend ==
    /\ cache = <<>>
    /\ now = 0
    /\ reddit = FALSE
    /\ NEWSAPI_KEY = FALSE
    /\ request = NoRequest
    /\ response = NoResponse
    /\ calls = <<>>
    /\ pending = <<>>
    /\ running = Idle
    /\ trends \in [op : {"start"}, up : Upstreams, fetched : {NoFetch},
                   result : {NoTrendsResult}]

\* trends_analyzer.py 6-46: the call returns, or the exception leaves it.
Fetch ==
    /\ trends.op = "start"
    /\ LET f == get_google_trends_data(trends.up)
       IN  trends' = [trends EXCEPT
                        !.op = IF f.raised = "-" THEN "fetched" ELSE "raised",
                        !.fetched = f]
    /\ UNCHANGED <<cache, now, reddit, NEWSAPI_KEY, request, response, calls,
                   pending, running>>

\* trends_analyzer.py 49-95, applied to what the fetch returned.
Calculate ==
    /\ trends.op = "fetched"
    /\ trends' = [trends EXCEPT
                    !.op = "calculated",
                    !.result = calculate_hype_from_trends(trends.fetched.data)]
    /\ UNCHANGED <<cache, now, reddit, NEWSAPI_KEY, request, response, calls,
                   pending, running>>

NextTrend == Fetch \/ Calculate

SpecTrend == InitTrend /\ [][NextTrend]_vars

-----------------------------------------------------------------------------
(* Properties *)

\* The step is a run of get_hype for the query q.
Handled(q) ==
    /\ request'.op = "get_hype"
    /\ request'.query = q
    /\ now' = now

\* The sources the last run called, in order.
Sources == [i \in 1..Len(calls) |-> calls[i].source]

\* The contribution of each source to the score: its clamped value when it
\* was enabled and answered, nothing otherwise.
WikiPart(w)   == IF w.wiki.ok THEN Min(w.wiki.n, 2000) ELSE 0
RedditPart(w) == IF reddit /\ w.reddit.ok THEN Min(200 * w.reddit.n, 3000) ELSE 0
NewsPart(w)   == IF NEWSAPI_KEY /\ w.news.ok THEN Min(10 * w.news.n, 5000) ELSE 0

\* The title by the priority Wikipedia, Reddit, NewsAPI.
LastHint(w) ==
    IF NEWSAPI_KEY /\ w.news.ok /\ w.news.n > 0 THEN "News Data"
    ELSE IF reddit /\ w.reddit.ok /\ w.reddit.n > 0 THEN "Reddit Data"
    ELSE IF w.wiki.ok THEN "Wikipedia Data"
    ELSE "No Data"

\* C1: a request whose key has an entry younger than 900 seconds is
\* answered with exactly the data of that entry, calls no source, and
\* leaves the cache as it was.
C1_FreshEntryServed ==
    [][\A q \in Queries :
          (/\ Handled(q)
           /\ lower(q) \in DOMAIN cache
           /\ now - cache[lower(q)].timestamp < 900)
          => /\ response' = HypeResult(cache[lower(q)].data)
             /\ calls' = <<>>
             /\ cache' = cache]_vars

\* C1 witness: a request answered from an entry that is 899 seconds old.
C1_Witness ==
    /\ request.op = "get_hype"
    /\ response.kind = "HypeResult"
    /\ calls = <<>>
    /\ lower(request.query) \in DOMAIN cache
    /\ now - cache[lower(request.query)].timestamp = 899

\* C2: a request whose key has an entry of age 900 seconds or more is not
\* answered from it: the sources are called again and a new entry with
\* the time of this request is stored and served.
C2_ExpiredEntryRecomputed ==
    [][\A q \in Queries :
          (/\ Handled(q)
           /\ lower(q) \in DOMAIN cache
           /\ now - cache[lower(q)].timestamp >= 900)
          => /\ calls' # <<>>
             /\ lower(q) \in DOMAIN cache'
             /\ cache'[lower(q)].timestamp = now
             /\ response' = HypeResult(cache'[lower(q)].data)]_vars

\* Two queries differ only in letter case and in leading or trailing
\* whitespace.
Equivalent(q1, q2) == lower(strip(q1)) = lower(strip(q2))

\* C3: a request for q2 made while the entry created by a request for an
\* equivalent q1 is younger than 900 seconds is a cache hit.
C3_EquivalentQueriesShareEntry ==
    [][\A q \in Queries :
          (/\ Handled(q)
           /\ \E k \in DOMAIN cache :
                 /\ Equivalent(cache[k].data.query, q)
                 /\ now - cache[k].timestamp < 900)
          => /\ calls' = <<>>
             /\ response'.kind = "HypeResult"]_vars

\* C4: no run of get_hype or analyze_hype ends with an exception, whatever
\* the sources answer.
C4_NeverRaises == response.kind \in {"none", "HypeResult", "tuple"}

\* Every adapter that is attempted fails.
EveryAdapterFails(w) ==
    /\ ~w.wiki.ok
    /\ reddit => ~w.reddit.ok
    /\ NEWSAPI_KEY => ~w.news.ok

\* C5: when every adapter fails the aggregation returns score 0.0, title
\* "No Data" and one snippet per attempted adapter, at least one.
C5_AllAdaptersFail ==
    (request.op = "analyze_hype" /\ EveryAdapterFails(request.world))
    => /\ response.kind = "tuple"
       /\ response.score = 0
       /\ response.title = "No Data"
       /\ Len(response.snippets) >= 1
       /\ Len(response.snippets) = Len(calls)

\* C6: a failing adapter adds nothing to the score, adds one snippet and
\* leaves the title alone, and the adapters after it are still queried
\* and merged.
C6_FailureIsolation ==
    request.op = "analyze_hype"
    => /\ Sources = <<"wikipedia">>
                    \o (IF reddit THEN <<"reddit">> ELSE <<>>)
                    \o (IF NEWSAPI_KEY THEN <<"newsapi">> ELSE <<>>)
       /\ response.kind = "tuple"
       /\ response.score = WikiPart(request.world) + RedditPart(request.world)
                           + NewsPart(request.world)
       /\ response.title = LastHint(request.world)
       /\ Len(response.snippets) = 3

\* The number of adapters disabled by absent credentials.
Disabled == (IF reddit THEN 0 ELSE 1) + (IF NEWSAPI_KEY THEN 0 ELSE 1)

\* C7: a disabled adapter is not called and contributes one snippet; with
\* 4500 links, Reddit disabled and 230 articles the result is 43.0,
\* "News Data" and three snippets.
C7_DisabledAdapter ==
    (request.op = "analyze_hype" /\ response.kind = "tuple")
    => /\ ~reddit => \A i \in 1..Len(calls) : calls[i].source # "reddit"
       /\ ~NEWSAPI_KEY => \A i \in 1..Len(calls) : calls[i].source # "newsapi"
       /\ Len(response.snippets) = Len(calls) + Disabled
       /\ (/\ request.world.wiki = Value(4500)
           /\ ~reddit
           /\ NEWSAPI_KEY
           /\ request.world.news = Value(230))
          => /\ response.score = 4300
             /\ response.title = "News Data"
             /\ Len(response.snippets) = 3

\* C8: the score returned is the sum of the clamped contributions of the
\* adapters that succeeded, min(links/100, 20) + min(posts*2, 30) +
\* min(articles/10, 50), and lies between 0 and 100.
C8_ScoreIsClampedSum ==
    (request.op = "analyze_hype" /\ response.kind = "tuple")
    => /\ response.score = WikiPart(request.world) + RedditPart(request.world)
                           + NewsPart(request.world)
       /\ response.score >= 0
       /\ response.score <= 100 * 100

\* C8 witness: the largest raw values from all three sources.
C8_Witness ==
    /\ request.op = "analyze_hype"
    /\ response.kind = "tuple"
    /\ reddit /\ NEWSAPI_KEY
    /\ request.world = World(Value(MaxLinks), Value(RedditLimit), Value(MaxArticles))
    /\ response.score = 2000 + 2000 + 5000

\* C9: the title returned is the hint of the last adapter, in the order
\* Wikipedia, Reddit, NewsAPI, that gave one, and "No Data" if none did.
C9_TitleIsLastHint ==
    (request.op = "analyze_hype" /\ response.kind = "tuple")
    => response.title = LastHint(request.world)

\* C9 witness: Wikipedia and Reddit give a hint, NewsAPI answers with no
\* article and gives none.
C9_Witness ==
    /\ request.op = "analyze_hype"
    /\ response.kind = "tuple"
    /\ reddit /\ NEWSAPI_KEY
    /\ request.world = World(Value(4500), Value(3), Value(0))
    /\ response.title = "Reddit Data"

\* C10 as stated: the query of every response is the query of the request
\* it answers, with its casing, also when the response comes from the
\* cache.
C10_QueryEchoed ==
    (request.op = "get_hype" /\ response.kind = "HypeResult")
    => response.query = request.query

\* C10 as amended: a freshly aggregated response carries the query of its
\* request as submitted; a response served from the cache carries the
\* query of the request that created the entry, which is the query of
\* this request up to letter case.
C10_QueryOfProducer ==
    (request.op = "get_hype" /\ response.kind = "HypeResult")
    => /\ calls # <<>> => response.query = request.query
       /\ calls = <<>> =>
             /\ response.query = cache[lower(request.query)].data.query
             /\ lower(response.query) = lower(request.query)

\* C10 witness: a request answered from the cache with the casing of the
\* earlier request.
C10_Witness ==
    /\ request.op = "get_hype"
    /\ response.kind = "HypeResult"
    /\ calls = <<>>
    /\ request.query = Py
    /\ response.query = py

\* The adapter a snippet comes from, by its text.
SnippetSource(s) ==
    CASE s.text \in {"Wikipedia links: ", "Wikipedia page not found.",
                     "Wikipedia disambiguation: "}     -> "wikipedia"
      [] s.text \in {"Reddit posts: ", "Reddit error: "} -> "reddit"
      [] s.text \in {"News articles: ", "NewsAPI error: "} -> "newsapi"
      [] OTHER -> "unknown"

\* The place of an adapter in the fixed order.
Rank(source) ==
    CASE source = "wikipedia" -> 1
      [] source = "reddit"    -> 2
      [] source = "newsapi"   -> 3
      [] OTHER                -> 0

\* C17: the snippets of a result are one per attempted adapter, in the
\* order Wikipedia, Reddit, NewsAPI, whichever of them succeeded.
C17_SnippetsInAdapterOrder ==
    (request.op = "analyze_hype" /\ response.kind = "tuple")
    => /\ Len(response.snippets) = Len(calls)
       /\ \A i \in 1..Len(calls) :
             SnippetSource(response.snippets[i]) = calls[i].source
       /\ \A i, j \in 1..Len(response.snippets) :
             i < j => Rank(SnippetSource(response.snippets[i]))
                      < Rank(SnippetSource(response.snippets[j]))
       /\ Sources = <<"wikipedia">>
                    \o (IF reddit THEN <<"reddit">> ELSE <<>>)
                    \o (IF NEWSAPI_KEY THEN <<"newsapi">> ELSE <<>>)

\* C17 witness: Wikipedia fails, Reddit answers, NewsAPI fails, and the
\* three snippets come in that order.
C17_Witness ==
    /\ request.op = "analyze_hype"
    /\ response.kind = "tuple"
    /\ request.world = World(Raises("PageError"), Value(3), Raises("Timeout"))
    /\ reddit /\ NEWSAPI_KEY
    /\ response.snippets = << Snippet("Wikipedia page not found.", 0, ""),
                              Snippet("Reddit posts: ", 3, ""),
                              Snippet("NewsAPI error: ", 0, "Timeout") >>

\* C19: an aggregation that returns is stored under its key with the time
\* of the request, whatever its score, and a request for a key whose
\* entry is younger than 900 seconds is answered with that entry and
\* calls no source.
C19_EveryResultCached ==
    [][\A q \in Queries :
          Handled(q)
          => /\ (response'.kind = "HypeResult" /\ calls' # <<>>)
                => /\ lower(q) \in DOMAIN cache'
                   /\ cache'[lower(q)].timestamp = now
                   /\ HypeResult(cache'[lower(q)].data) = response'
             /\ (lower(q) \in DOMAIN cache
                 /\ now - cache[lower(q)].timestamp < 900)
                => /\ calls' = <<>>
                   /\ response' = HypeResult(cache[lower(q)].data)]_vars

\* C19 witness: the zero-score result of an aggregation in which every
\* adapter failed is served from the cache 899 seconds later.
C19_Witness ==
    /\ request.op = "get_hype"
    /\ request.world = WorldUp
    /\ calls = <<>>
    /\ response.kind = "HypeResult"
    /\ response.score = 0
    /\ response.title = "No Data"
    /\ Len(response.snippets) >= 1
    /\ now - cache[lower(request.query)].timestamp = 899

\* C11: no request waits without end for a source: a source that never
\* answers is given up as a timeout and the handler returns.
C11_NoRequestBlocksForever == running.phase # "blocked"

\* C12: while the aggregation of one request waits on a source, a waiting
\* request for a different key can be started.
C12_DifferentQueriesIndependent ==
    (/\ running.phase \in {"aggregating", "blocked"}
     /\ pending # <<>>
     /\ lower(Head(pending).query) # lower(running.query))
    => ENABLED Begin

\* The step starts the handler of the oldest waiting request.
BeginStep ==
    /\ pending # <<>>
    /\ pending' = Tail(pending)

C20_TimestampIsRequestStart ==
    [][/\ (BeginStep /\ running'.phase = "aggregating")
          => running'.current_time = now
       /\ (running.phase = "aggregating" /\ running'.phase = "idle"
           /\ response'.kind = "HypeResult")
          => /\ cache'[lower(running.query)].timestamp = running.current_time
             /\ cache'[lower(running.query)].timestamp <= now
       /\ (BeginStep /\ running'.phase = "idle")
          => /\ lower(Head(pending).query) \in DOMAIN cache
             /\ now - cache[lower(Head(pending).query)].timestamp < 900]_vars

\* C20 witness: an entry stored 450 seconds or more after the start of its
\* request carries the time of that start.
C20_Witness ==
    /\ running.phase = "idle"
    /\ response.kind = "HypeResult"
    /\ calls # <<>>
    /\ running.ended > running.current_time
    /\ now = running.ended
    /\ cache[lower(running.query)].timestamp = running.current_time

\* C16: a request without a query or with the empty query is rejected
\* with a validation error, calls no source and creates no cache entry.
C16_EmptyQueryRejected ==
    (\/ request.op = "rejected"
     \/ request.op = "get_hype" /\ request.query = <<>>)
    => /\ response.kind = "ValidationError"
       /\ calls = <<>>
       /\ <<>> \notin DOMAIN cache

\* The trend path has produced a result from non-empty trend data.
CalculatedFromData ==
    /\ trends.op = "calculated"
    /\ ~trends.fetched.data.none
    /\ ~empty(trends.fetched.data.interest)

\* C14: for non-empty trend data the score is the latest value v of the
\* series and the title is chosen by the strict thresholds 85, 65, 40, 15,
\* except "Interest Fading?" when v = 0 and the series sums to more than 0.
C14_ScoreAndTitle ==
    CalculatedFromData =>
        LET series == trends.fetched.data.interest.values
            v      == series[Len(series)]
            title  == trends.result.title
        IN  /\ trends.result.score = v
            /\ (v = 0 /\ sum(series) > 0) => title = "Interest Fading?"
            /\ ~(v = 0 /\ sum(series) > 0) =>
                 /\ (v > 85) <=> (title = "Peak Interest!")
                 /\ (v > 65 /\ v <= 85) <=> (title = "High Interest")
                 /\ (v > 40 /\ v <= 65) <=> (title = "Moderate Interest")
                 /\ (v > 15 /\ v <= 40) <=> (title = "Low Interest")
                 /\ (v <= 15) <=> (title = "Minimal Interest")

\* A series whose latest value is 0 after a non-zero past.
C14_Witness ==
    /\ CalculatedFromData
    /\ trends.result.score = 0
    /\ sum(trends.fetched.data.interest.values) > 0
    /\ trends.result.title = "Interest Fading?"

\* The fetch met no sufficient data: a call raised, the keyword column is
\* missing or the series sums to 0.
NoSufficientTrend ==
    \/ trends.up.TrendReq # "-"
    \/ trends.up.build_payload # "-"
    \/ trends.up.interest_exc # "-"
    \/ \A i \in 1..Len(trends.up.interest_df.columns) :
           trends.up.interest_df.columns[i] # "keyword"
    \/ sum(trends.up.interest_df.values) = 0

C18_SnippetsTopThenRising ==
    CalculatedFromData =>
        LET rq     == trends.fetched.data.related_queries
            top    == IF rq.top.state = "frame" THEN rq.top.rows ELSE <<>>
            rising == IF rq.rising.state = "frame" THEN rq.rising.rows ELSE <<>>
            nT     == IF Len(top) < 2 THEN Len(top) ELSE 2
            nR     == IF Len(rising) < 3 THEN Len(rising) ELSE 3
            snips  == trends.result.snippets
        IN  /\ Len(snips) \in 1..5
            /\ (nT + nR = 0) => snips = <<NoRelatedSnippet>>
            /\ (nT + nR > 0) =>
                 /\ Len(snips) = nT + nR
                 /\ \A i \in 1..nT :
                      /\ snips[i].text = "Top related: "
                      /\ snips[i].query = top[i].query
                 /\ \A j \in 1..nR :
                      /\ snips[nT + j].text = "Rising related: "
                      /\ snips[nT + j].query = rising[j].query
                      /\ snips[nT + j].value = rising[j].value

\* More top and rising queries than are reported: 2 and 3 are kept.
C18_Witness ==
    /\ CalculatedFromData
    /\ Len(trends.fetched.data.related_queries.top.rows) > 2
    /\ Len(trends.fetched.data.related_queries.rising.rows) > 3
    /\ Len(trends.result.snippets) = 5

====
